---- MODULE Spec2Model ----
(***************************************************************************)
(* Model of the MetaSpatial local pipeline:                                *)
(*   run_metaverse_local.py   - the outer launcher (run_local_metaverse)   *)
(*   3d_utlis/place_in_blender.py - the inner script run inside the host   *)
(*                                                                         *)
(* Strings are sequences of atoms.  An atom is an indivisible piece of     *)
(* text: a plain word ("chair"), a blank (" "), a path separator ("/"),    *)
(* a digit ("7"), or a dot-atom (".glb", ".001": a "." followed by plain   *)
(* characters).  Concatenation is \o, so formatting, shell word splitting, *)
(* argument parsing, str.split and str.replace are computed on the text.   *)
(***************************************************************************)
EXTENDS Integers, Sequences, FiniteSets, TLC

VARIABLES
    \* ---- inputs of the outer script and the world it runs in
    room_name,      \* --room_name given to run_local_metaverse
    step_number,    \* --step_number (an integer)
    ground_truth,   \* --ground_truth (a string, "true" or "false")
    fast_mode,      \* --fast_mode (store_true)
    skip_save,      \* --skip_save (store_true)
    files,          \* the paths that exist on disk
    sceneGraph,     \* content of <room>/scene_graph-backtracked.json
    \* ---- outer script
    opc,            \* position of run_local_metaverse
    blender_cmd,    \* the command line built (<<>> before it is built)
    out,            \* messages printed by the outer script, in order
    render_output,  \* the path whose existence the outer script checked
    exitStatus,     \* exit status of the outer process (-1 while running)
    \* ---- inner script
    ipc,            \* position of place_in_blender.py
    returncode,     \* return code of the subprocess (-1 while running)
    args,           \* the inner script's parsed arguments
    jsonReads,      \* number of times the scene graph file was opened
    objects_in_room,\* identifier -> record, in insertion order
    glb_file_paths, \* key -> path of a .glb file
    warnings,       \* identifiers warned about by batch_import_assets
    imports,        \* (file path, object name) pairs imported, in order
    objects,        \* the host's objects, in scene order
    active,         \* id of the host's active object (0: None)
    nextId,         \* next fresh object id of the host
    MSH_OBJS,       \* ids of the meshes collected by batch_process_meshes
    transform_map,  \* object name -> transform, as built by the third batch
    ops,            \* editing operations issued to the host, in order
    render_filepath,\* scene.render.filepath (<<>> until setup_render)
    resolution,     \* scene.render.resolution_x (0 until setup_render)
    written         \* the paths written by the inner run

vars == << room_name, step_number, ground_truth, fast_mode, skip_save, files,
           sceneGraph, opc, blender_cmd, out, render_output, exitStatus,
           ipc, returncode, args, jsonReads, objects_in_room, glb_file_paths,
           warnings, imports, objects, active, nextId, MSH_OBJS,
           transform_map, ops, render_filepath, resolution, written >>

----------------------------------------------------------------------------
(* Bounds of the model *)

\* longest scene graph (number of JSON records)
MaxRecords == 2

----------------------------------------------------------------------------
(* Text *)

Digits == << "0", "1", "2", "3", "4", "5", "6", "7", "8", "9" >>

DotAtoms == { ".glb", ".001", ".002", ".png", ".blend", ".json", ".py" }

\* f"{n}" for a non-negative integer
RECURSIVE FormatInt(_)
FormatInt(n) ==
    IF n < 10 THEN << Digits[n + 1] >>
    ELSE FormatInt(n \div 10) \o << Digits[(n % 10) + 1] >>

IsDigit(a) == \E d \in 1..10 : Digits[d] = a

DigitValue(a) == (CHOOSE d \in 1..10 : Digits[d] = a) - 1

\* int(s) succeeds
IsIntText(s) == s # << >> /\ \A i \in 1..Len(s) : IsDigit(s[i])

\* int(s)
RECURSIVE ParseInt(_)
ParseInt(s) ==
    IF Len(s) = 1 THEN DigitValue(s[1])
    ELSE 10 * ParseInt(SubSeq(s, 1, Len(s) - 1)) + DigitValue(s[Len(s)])

\* s.split(sep): the pieces between occurrences of the atom sep
RECURSIVE Split(_, _)
Split(s, sep) ==
    IF \A i \in 1..Len(s) : s[i] # sep THEN << s >>
    ELSE LET k == CHOOSE i \in 1..Len(s) :
                      s[i] = sep /\ \A j \in 1..(i - 1) : s[j] # sep
         IN  << SubSeq(s, 1, k - 1) >> \o Split(SubSeq(s, k + 1, Len(s)), sep)

\* the words a POSIX shell makes of an unquoted command line
ShellWords(cmd) == SelectSeq(Split(cmd, " "), LAMBDA w : w # << >>)

\* s.replace(atom, "")
Replace(s, atom) == SelectSeq(s, LAMBDA a : a # atom)

\* s.split(".")[0]
BeforeFirstDot(s) ==
    IF \A i \in 1..Len(s) : s[i] \notin DotAtoms THEN s
    ELSE LET k == CHOOSE i \in 1..Len(s) :
                      s[i] \in DotAtoms /\ \A j \in 1..(i - 1) : s[j] \notin DotAtoms
         IN  SubSeq(s, 1, k - 1)

\* s.endswith(atom)
EndsWith(s, atom) == s # << >> /\ s[Len(s)] = atom

\* os.path.join(a, b)
PathJoin(a, b) == a \o << "/" >> \o b

\* os.path.dirname(p)
Dirname(p) ==
    IF \A i \in 1..Len(p) : p[i] # "/" THEN << >>
    ELSE LET k == CHOOSE i \in 1..Len(p) :
                      p[i] = "/" /\ \A j \in (i + 1)..Len(p) : p[j] # "/"
         IN  SubSeq(p, 1, k - 1)

\* os.path.basename(p)
Basename(p) ==
    IF \A i \in 1..Len(p) : p[i] # "/" THEN p
    ELSE LET k == CHOOSE i \in 1..Len(p) :
                      p[i] = "/" /\ \A j \in (i + 1)..Len(p) : p[j] # "/"
         IN  SubSeq(p, k + 1, Len(p))

IsPrefix(p, s) == Len(p) <= Len(s) /\ SubSeq(s, 1, Len(p)) = p

----------------------------------------------------------------------------
(* run_metaverse_local.py: paths and the command line *)

PROJECT_ROOT == << "/", "proj" >>

ROOMS_FOLDER == PathJoin(PathJoin(PROJECT_ROOT, << "3d_utlis" >>), << "data" >>)

PLACE_IN_BLENDER_SCRIPT ==
    PathJoin(PathJoin(PROJECT_ROOT, << "3d_utlis" >>), << "place_in_blender", ".py" >>)

SceneGraphName == << "scene_graph-backtracked", ".json" >>

OuterRoomPath(rn) == PathJoin(ROOMS_FOLDER, rn)

BacktrackedJsonPath(rn) == PathJoin(OuterRoomPath(rn), SceneGraphName)

\* not os.path.exists(room_path)
RoomMissing(fs, rn) == OuterRoomPath(rn) \notin fs

\* the check of lines 51-53 left out
JsonMissing_Unchecked(fs, rn) == FALSE

\* not os.path.exists(backtracked_json_path)
JsonMissing(fs, rn) == BacktrackedJsonPath(rn) \notin fs

\* the f-string of line 60 and the two optional suffixes
BuildCmd(rn, sn, gt, fm, ss) ==
    << "python", " " >> \o PLACE_IN_BLENDER_SCRIPT
      \o << " ", "--room_name", " " >> \o rn
      \o << " ", "--step_number", " " >> \o FormatInt(sn)
      \o << " ", "--ground_truth", " ", gt >>
      \o (IF fm THEN << " ", "--fast_mode", " ", "true" >> ELSE << >>)
      \o (IF ss THEN << " ", "--skip_save", " ", "true" >> ELSE << >>)

\* the path the outer script looks for after a successful run
ExpectedRenderOutput(rn, sn) ==
    PathJoin(OuterRoomPath(rn),
             << "render_output_step_" >> \o FormatInt(sn) \o << ".png" >>)

\* the subprocess's return code handed on as the exit status
OuterExitStatus_Propagated(rc) == IF rc > 0 THEN rc ELSE 0

\* the exit status of the outer process once run_local_metaverse has returned:
\* __main__ calls the function and falls off the end of the script
OuterExitStatus(rc) == 0

----------------------------------------------------------------------------
(* place_in_blender.py: argument parsing *)

Flags == { "--room_name", "--step_number", "--ground_truth", "--fast_mode", "--skip_save" }

RequiredFlags == { "--room_name", "--step_number", "--ground_truth" }

TrueWords == { "y", "yes", "t", "true", "on", "1" }

FalseWords == { "n", "no", "f", "false", "off", "0" }

\* strtobool(x) does not raise ValueError
IsBoolText(w) == Len(w) = 1 /\ w[1] \in (TrueWords \cup FalseWords)

\* bool(strtobool(x))
StrToBool(w) == w[1] \in TrueWords

\* a command-line word argparse takes for an option
IsFlag(w) == Len(w) = 1 /\ w[1] \in Flags

\* the option loop of parse_args: every option of this parser takes one argument;
\* a word that is neither an option nor an option's argument is an error
RECURSIVE ParseOpts(_, _, _)
ParseOpts(argv, i, acc) ==
    IF i > Len(argv) THEN [ err |-> FALSE, val |-> acc ]
    ELSE IF ~IsFlag(argv[i]) THEN [ err |-> TRUE, val |-> acc ]
    ELSE IF i + 1 > Len(argv) \/ IsFlag(argv[i + 1]) THEN [ err |-> TRUE, val |-> acc ]
    ELSE ParseOpts(argv, i + 2, [ acc EXCEPT ![argv[i][1]] = argv[i + 1] ])

NoArgs ==
    [ ok |-> FALSE, room_name |-> << >>, step_number |-> 0, ground_truth |-> FALSE,
      fast_mode |-> FALSE, skip_save |-> FALSE ]

\* parser.parse_args() on the words after the script name (lines 11-17)
ParseArgs(argv) ==
    LET p == ParseOpts(argv, 1, [ f \in Flags |-> << >> ])
        v == p.val
        given(f) == v[f] # << >>
        typed == /\ IsIntText(v["--step_number"])
                 /\ IsBoolText(v["--ground_truth"])
                 /\ given("--fast_mode") => IsBoolText(v["--fast_mode"])
                 /\ given("--skip_save") => IsBoolText(v["--skip_save"])
    IN  IF p.err \/ (\E f \in RequiredFlags : ~given(f)) \/ ~typed THEN NoArgs
        ELSE [ ok           |-> TRUE,
               room_name    |-> v["--room_name"],
               step_number  |-> ParseInt(v["--step_number"]),
               ground_truth |-> StrToBool(v["--ground_truth"]),
               fast_mode    |-> IF given("--fast_mode") THEN StrToBool(v["--fast_mode"])
                                ELSE FALSE,
               skip_save    |-> IF given("--skip_save") THEN StrToBool(v["--skip_save"])
                                ELSE FALSE ]

\* sys.argv[1:] of the subprocess: the shell's words after "python" and the script
InnerArgv(cmd) == LET w == ShellWords(cmd) IN SubSeq(w, 3, Len(w))

\* __file__ of the subprocess
InnerScriptFile(cmd) == ShellWords(cmd)[2]

\* script_dir, line 19
ScriptDir(cmd) == Dirname(InnerScriptFile(cmd))

\* room_path of the inner script, line 20
InnerRoomPath(cmd, a) == PathJoin(PathJoin(ScriptDir(cmd), << "data" >>), a.room_name)

----------------------------------------------------------------------------
(* place_in_blender.py: the scene graph *)

\* A Python dict is a sequence of [key, value] entries in insertion order.
DictHas(d, k) == \E i \in 1..Len(d) : d[i].key = k

DictGet(d, k) == d[CHOOSE i \in 1..Len(d) : d[i].key = k].value

\* d[k] = v: a new key is appended, an existing key keeps its place
DictSet(d, k, v) ==
    IF DictHas(d, k)
    THEN [ i \in 1..Len(d) |-> IF d[i].key = k THEN [ key |-> k, value |-> v ] ELSE d[i] ]
    ELSE Append(d, [ key |-> k, value |-> v ])

DictKeys(d) == [ i \in 1..Len(d) |-> d[i].key ]

DictKeySet(d) == { d[i].key : i \in 1..Len(d) }

\* the list literal of line 324
StructuralLabels ==
    { << "south_wall" >>, << "north_wall" >>, << "east_wall" >>, << "west_wall" >>,
      << "middle", " ", "of", " ", "the", " ", "room" >>, << "ceiling" >> }

\* "ceiling" forgotten in the list of line 324
IsStructural_NoCeiling(id) == id \in (StructuralLabels \ { << "ceiling" >> })

\* item["new_object_id"] not in [...]
IsStructural(id) == id \in StructuralLabels

\* the loop of lines 323-325 from record i on
RECURSIVE LoadFrom(_, _, _)
LoadFrom(data, i, d) ==
    IF i > Len(data) THEN d
    ELSE LoadFrom(data, i + 1,
                  IF ~IsStructural(data[i].new_object_id)
                  THEN DictSet(d, data[i].new_object_id, data[i])
                  ELSE d)

\* objects_in_room after lines 318-325
LoadSceneData(data) == LoadFrom(data, 1, << >>)

----------------------------------------------------------------------------
(* place_in_blender.py: the .glb files *)

AssetsDir(roomPath) == PathJoin(roomPath, << "assets" >>)

\* file.split(".")[0]
GlbKey(path) == BeforeFirstDot(Basename(path))

\* find_glb_files: os.walk is top-down, so the files of the directory itself
\* come before those of its subdirectories, and the first file of a key wins
FindGlbFiles(fs, directory) ==
    LET glbs == { f \in fs : IsPrefix(directory \o << "/" >>, f) /\ EndsWith(f, ".glb") }
        top  == { f \in glbs : Dirname(f) = directory }
        keys == { GlbKey(f) : f \in glbs }
        first(k) == IF \E f \in top : GlbKey(f) = k
                    THEN CHOOSE f \in top : GlbKey(f) = k
                    ELSE CHOOSE f \in glbs : GlbKey(f) = k
    IN  [ k \in keys |-> first(k) ]

----------------------------------------------------------------------------
(* The host application: objects *)

UnitScale == << << 1, 1 >>, << 1, 1 >>, << 1, 1 >> >>

\* An object of the host.  Lengths are in centimetres; a scale factor is a
\* fraction <<numerator, denominator>>; rotation_z is in degrees.
HostObject(id, name, type, parent, location, center, dims) ==
    [ id |-> id, name |-> name, type |-> type, parent |-> parent,
      location |-> location, rotation_z |-> 0, scale |-> UnitScale,
      center |-> center, dimensions |-> dims ]

ObjIds(objs) == { objs[i].id : i \in 1..Len(objs) }

ObjById(objs, id) == objs[CHOOSE i \in 1..Len(objs) : objs[i].id = id]

\* bpy.data.objects.get(name) is not None
HasName(objs, name) == \E i \in 1..Len(objs) : objs[i].name = name

\* bpy.data.objects.get(name)
ObjByName(objs, name) == objs[CHOOSE i \in 1..Len(objs) : objs[i].name = name]

\* obj.name = name.  The host keeps names unique; the names of the assets
\* modelled differ from each other and from the identifiers of other assets, so
\* the name assigned is the name the object gets.
SetName(objs, id, name) ==
    [ i \in 1..Len(objs) |-> IF objs[i].id = id THEN [ objs[i] EXCEPT !.name = name ]
                             ELSE objs[i] ]

\* bpy.data.objects.remove(obj): the object goes, its children lose their parent
RemoveObject(objs, id) ==
    LET kept == SelectSeq(objs, LAMBDA o : o.id # id)
    IN  [ i \in 1..Len(kept) |-> IF kept[i].parent = id
                                 THEN [ kept[i] EXCEPT !.parent = 0 ] ELSE kept[i] ]

\* obj.children, in scene order
Children(objs, id) == SelectSeq(objs, LAMBDA o : o.parent = id)

\* What bpy.ops.import_scene.gltf creates for a file: the objects of the file
\* (parent: index within the file, 0 for a root), the first root being the one
\* the importer leaves active.  Four shapes of asset are modelled:
\*   a single root mesh (chair.glb);
\*   a single flat root mesh, of height 0 (old/chair.glb);
\*   a root empty with two mesh children (table.glb);
\*   a root empty with a nested empty and meshes, plus a second root empty
\*   (named like the asset with ".001") with a mesh of its own (old/table.glb).
GltfContent(path) ==
    LET key == GlbKey(path)
        old == EndsWith(Dirname(path), "old")
        P(name, type, parent, loc, center, dims) ==
            [ name |-> name, type |-> type, parent |-> parent, location |-> loc,
              center |-> center, dimensions |-> dims ]
        E(name, parent) == P(name, "EMPTY", parent, << 0, 0, 0 >>, << 0, 0, 0 >>, << 0, 0, 0 >>)
    IN  IF key = << "chair" >>
        THEN << P(key \o << "_mesh" >>, "MESH", 0, << 0, 0, 0 >>, << 0, 0, 40 >>,
                  IF old THEN << 50, 50, 0 >> ELSE << 50, 50, 80 >>) >>
        ELSE IF old
        THEN << E(key \o << "_root" >>, 0),
                E(key \o << "_sub" >>, 1),
                P(key \o << "_a" >>, "MESH", 2, << 0, 0, 0 >>, << 0, 0, 60 >>, << 100, 100, 20 >>),
                P(key \o << "_b" >>, "MESH", 1, << 10, 0, 0 >>, << 10, 0, 0 >>, << 100, 50, 10 >>),
                E(key \o << ".001" >>, 0),
                P(key \o << "_c" >>, "MESH", 5, << 0, 20, 0 >>, << 0, 20, 10 >>, << 50, 50, 20 >>) >>
        ELSE << E(key \o << "_root" >>, 0),
                P(key \o << "_top" >>, "MESH", 1, << 0, 0, 70 >>, << 0, 0, 70 >>, << 200, 100, 10 >>),
                P(key \o << "_legs" >>, "MESH", 1, << 0, 0, 0 >>, << 0, 0, 35 >>, << 180, 80, 70 >>) >>

\* bpy.ops.import_scene.gltf(filepath=path): the new objects are appended and the
\* first root of the file becomes the active object
ImportGltf(objs, nid, path) ==
    LET c == GltfContent(path)
    IN  objs \o [ i \in 1..Len(c) |->
                    HostObject(nid + i - 1, c[i].name, c[i].type,
                               IF c[i].parent = 0 THEN 0 ELSE nid + c[i].parent - 1,
                               c[i].location, c[i].center, c[i].dimensions) ]

ImportedCount(path) == Len(GltfContent(path))

\* lines 143-146 without the assignment of the name
ImportOne_Unnamed(st, file_path, object_name) ==
    [ objs |-> ImportGltf(st.objs, st.nid, file_path),
      act  |-> IF ImportedCount(file_path) > 0 THEN st.nid ELSE st.act,
      nid  |-> st.nid + ImportedCount(file_path) ]

\* lines 143-146 for one entry of import_list; st is [objs, act, nid]
ImportOne(st, file_path, object_name) ==
    LET objs2 == ImportGltf(st.objs, st.nid, file_path)
        act2  == IF ImportedCount(file_path) > 0 THEN st.nid ELSE st.act
    IN  [ objs |-> IF act2 # 0 THEN SetName(objs2, act2, object_name) ELSE objs2,
          act  |-> act2,
          nid  |-> st.nid + ImportedCount(file_path) ]

\* item_id in glb_file_paths
HasGlb(glbs, item_id) == item_id \in DOMAIN glbs

\* import_list of lines 134-139
ImportList(oir, glbs) ==
    LET ks == SelectSeq(DictKeys(oir), LAMBDA k : HasGlb(glbs, k))
    IN  [ i \in 1..Len(ks) |-> << glbs[ks[i]], ks[i] >> ]

\* the identifiers warned about, lines 138-139
MissingGlb(oir, glbs) == SelectSeq(DictKeys(oir), LAMBDA k : ~HasGlb(glbs, k))

\* the loop of lines 142-146
RECURSIVE ImportAll(_, _, _)
ImportAll(st, list, i) ==
    IF i > Len(list) THEN st
    ELSE ImportAll(ImportOne(st, list[i][1], list[i][2]), list, i + 1)

----------------------------------------------------------------------------
(* place_in_blender.py: batch_process_meshes *)

\* get_highest_parent_objects filtered by type == "EMPTY" (lines 152-153)
EmptyParents(objs) ==
    LET tops == SelectSeq(objs, LAMBDA o : o.parent = 0 /\ o.type = "EMPTY")
    IN  [ i \in 1..Len(tops) |-> tops[i].id ]

\* select_meshes_under_empty: the meshes selected, in the order they are
\* selected (each becomes the active object in turn)
RECURSIVE SelectUnder(_, _), SelectKids(_, _, _)
SelectUnder(objs, empty_object_name) ==
    IF HasName(objs, empty_object_name)
       /\ ObjByName(objs, empty_object_name).type = "EMPTY"
    THEN SelectKids(objs, Children(objs, ObjByName(objs, empty_object_name).id), 1)
    ELSE << >>
SelectKids(objs, kids, i) ==
    IF i > Len(kids) THEN << >>
    ELSE (IF kids[i].type = "MESH" THEN << kids[i].id >>
          ELSE SelectUnder(objs, kids[i].name))
         \o SelectKids(objs, kids, i + 1)

Max(a, b) == IF a >= b THEN a ELSE b

\* the bounding box of a joined mesh: taken as the largest extent of its parts
RECURSIVE JoinedDims(_, _, _)
JoinedDims(objs, sel, i) ==
    IF i > Len(sel) THEN << 0, 0, 0 >>
    ELSE LET d == ObjById(objs, sel[i]).dimensions
             r == JoinedDims(objs, sel, i + 1)
         IN  << Max(d[1], r[1]), Max(d[2], r[2]), Max(d[3], r[3]) >>

\* bpy.ops.object.join(): the selected meshes are merged into the active one
JoinSelected(objs, sel, act) ==
    LET others == { sel[i] : i \in 1..Len(sel) } \ { act }
        kept   == SelectSeq(objs, LAMBDA o : o.id \notin others)
    IN  [ i \in 1..Len(kept) |->
            IF kept[i].id = act
            THEN [ kept[i] EXCEPT !.dimensions = JoinedDims(objs, sel, 1) ]
            ELSE kept[i] ]

\* the suffix of line 162
JoinedName(parent_name) == parent_name \o << "-joined" >>

\* one pass of the loop of lines 156-163; st is [objs, act]
JoinOne(st, parent_id) ==
    LET sel   == SelectUnder(st.objs, ObjById(st.objs, parent_id).name)
        act2  == IF sel = << >> THEN st.act ELSE sel[Len(sel)]
        objs2 == IF sel = << >> THEN st.objs ELSE JoinSelected(st.objs, sel, act2)
    IN  [ objs |-> IF act2 # 0 /\ act2 \in ObjIds(objs2)
                   THEN SetName(objs2, act2, JoinedName(ObjById(st.objs, parent_id).name))
                   ELSE objs2,
          act  |-> act2 ]

RECURSIVE JoinAll(_, _, _)
JoinAll(st, parents, i) ==
    IF i > Len(parents) THEN st
    ELSE JoinAll(JoinOne(st, parents[i]), parents, i + 1)

\* MSH_OBJS of line 167
MeshIds(objs) ==
    LET ms == SelectSeq(objs, LAMBDA o : o.type = "MESH")
    IN  [ i \in 1..Len(ms) |-> ms[i].id ]

\* lines 171-177 on every mesh: parent_clear, transform_apply, origin_set
ClearAndApply(objs) ==
    [ i \in 1..Len(objs) |->
        IF objs[i].type = "MESH"
        THEN [ objs[i] EXCEPT !.parent = 0, !.location = objs[i].center,
                              !.rotation_z = 0, !.scale = UnitScale ]
        ELSE objs[i] ]

\* key_variants of lines 185-190
KeyVariants(name) ==
    << name, Replace(name, "-joined"), Replace(name, ".001"), Replace(name, ".002") >>

\* line 191: the first variant that is a key of objects_in_room, as a sequence of
\* at most one key (<< >> for None)
MatchKey(name, oir) ==
    LET kv   == KeyVariants(name)
        hits == { i \in 1..Len(kv) : DictHas(oir, kv[i]) }
    IN  IF hits = {} THEN << >>
        ELSE << kv[CHOOSE i \in hits : \A j \in hits : i <= j] >>

\* the entry of transform_map made of a scene-graph record (lines 194-198);
\* the rotation is in degrees: (z_angle / 180) * pi + pi radians
TransformOf(item) ==
    [ position |-> << item.position.x, item.position.y, item.position.z >>,
      rotation |-> item.rotation.z_angle + 180,
      size     |-> item.size_in_meters ]

\* transform_map of lines 183-198, keyed by object name
BuildTransformMap(objs, mshs, oir) ==
    LET named == { ObjById(objs, mshs[i]).name : i \in 1..Len(mshs) }
        keyed == { n \in named : MatchKey(n, oir) # << >> }
    IN  [ n \in keyed |-> TransformOf(DictGet(oir, MatchKey(n, oir)[1])) ]

\* the meshes of MSH_OBJS whose name is in transform_map, in order
Mapped(objs, mshs, tm) ==
    SelectSeq(mshs, LAMBDA id : ObjById(objs, id).name \in DOMAIN tm)

\* lines 201-204 and 207-212: obj.location = position, then a rotation about Z
PlaceAndRotate(objs, mshs, tm) ==
    [ i \in 1..Len(objs) |->
        IF (\E j \in 1..Len(mshs) : mshs[j] = objs[i].id) /\ objs[i].name \in DOMAIN tm
        THEN [ objs[i] EXCEPT !.location = tm[objs[i].name].position,
                              !.rotation_z = @ + tm[objs[i].name].rotation ]
        ELSE objs[i] ]

\* the division of lines 219-223 raises ZeroDivisionError
ZeroDims(o) == \E a \in 1..3 : o.dimensions[a] = 0

\* scale_factors of lines 219-223
ScaleFactors(size, dims) ==
    << << size.length, dims[1] >>, << size.width, dims[2] >>, << size.height, dims[3] >> >>

\* the number of meshes scaled before the loop of lines 215-224 ends or raises
ScaledCount(objs, todo) ==
    IF \E j \in 1..Len(todo) : ZeroDims(ObjById(objs, todo[j]))
    THEN (CHOOSE j \in 1..Len(todo) :
             /\ ZeroDims(ObjById(objs, todo[j]))
             /\ \A k \in 1..(j - 1) : ~ZeroDims(ObjById(objs, todo[k]))) - 1
    ELSE Len(todo)

\* lines 215-224 on the first n mapped meshes
ApplyScales(objs, todo, n, tm) ==
    [ i \in 1..Len(objs) |->
        IF \E j \in 1..n : todo[j] = objs[i].id
        THEN [ objs[i] EXCEPT !.scale = ScaleFactors(tm[objs[i].name].size,
                                                     objs[i].dimensions) ]
        ELSE objs[i] ]

----------------------------------------------------------------------------
(* place_in_blender.py: clean-up, room, save and render *)

\* delete_empty_objects removes objects from scene.objects while the for loop
\* iterates over it.  The host gives no guarantee for that: after a removal the
\* iteration may go on with the object that followed the removed one, or step
\* over it (or the host may crash, see InnerDeleteEmptiesCrash).  The set of
\* scenes the loop can leave, started at position i.
RECURSIVE DeleteEmptiesFrom(_, _)
DeleteEmptiesFrom(objs, i) ==
    IF i > Len(objs) THEN { objs }
    ELSE IF objs[i].type = "EMPTY"
    THEN LET rest == RemoveObject(objs, objs[i].id)
         IN  DeleteEmptiesFrom(rest, i) \cup DeleteEmptiesFrom(rest, i + 1)
    ELSE DeleteEmptiesFrom(objs, i + 1)

DeleteEmptyObjects(objs) == DeleteEmptiesFrom(objs, 1)

\* create_room(width, depth, height): a unit cube (100 cm) added at the centre
\* of the room and resized to the room
CreateRoom(objs, nid, width, depth, height) ==
    Append(objs,
           [ HostObject(nid, << "Cube" >>, "MESH", 0,
                        << width \div 2, depth \div 2, height \div 2 >>,
                        << width \div 2, depth \div 2, height \div 2 >>,
                        << width, depth, height >>)
               EXCEPT !.scale = << << width, 100 >>, << depth, 100 >>, << height, 100 >> >> ])

\* the scene is saved under the name of the scene graph file
BlendName_OverSceneGraph(gt, sn) == SceneGraphName

\* the file name of lines 364-367
BlendName(gt, sn) ==
    IF gt THEN << "generated_scene_groundtruth", ".blend" >>
    ELSE << "generated_scene_step_" >> \o FormatInt(sn) \o << ".blend" >>

\* the ground-truth branch of lines 292-293 left out
RenderName_StepOnly(gt, sn) == << "render_output_step_" >> \o FormatInt(sn) \o << ".png" >>

\* the file name of lines 292-295
RenderName(gt, sn) ==
    IF gt THEN << "render_output_groundtruth1", ".png" >>
    ELSE << "render_output_step_" >> \o FormatInt(sn) \o << ".png" >>

\* skip_save ignored
SavesBlend_Always(a) == TRUE

\* not skip_save, line 362
SavesBlend(a) == ~a.skip_save

\* the camera of lines 230-236, added when the scene has none
WithCamera(objs, nid) ==
    IF HasName(objs, << "Camera" >>) THEN objs
    ELSE Append(objs, HostObject(nid, << "Camera" >>, "CAMERA", 0,
                                 << 250, -300, 170 >>, << 250, -300, 170 >>, << 0, 0, 0 >>))

\* scene.render.resolution_x, lines 245-280
Resolution(a) == IF a.fast_mode THEN 400 ELSE 800

----------------------------------------------------------------------------
(* Inputs *)

RoomNames == { << "room_97" >>, << "room", " ", "97" >> }

GroundTruths == { "true", "false" }

\* one step number of one digit and one of two
StepNumbers == { 1, 12 }

SceneRecord(id, x, y, z_angle, length) ==
    [ new_object_id  |-> id,
      position       |-> [ x |-> x, y |-> y, z |-> 0 ],
      rotation       |-> [ z_angle |-> z_angle ],
      size_in_meters |-> [ length |-> length, width |-> 100, height |-> 100 ] ]

\* the records a scene graph is made of: two for "chair", so that an identifier
\* can occur twice with different data, one for "table" and a structural one
RecordPool ==
    { SceneRecord(<< "chair" >>, 100, 200, 0, 50),
      SceneRecord(<< "chair" >>, 300, 100, 90, 60),
      SceneRecord(<< "table" >>, 200, 200, 45, 200),
      SceneRecord(<< "ceiling" >>, 300, 200, 0, 600) }

SceneGraphs == UNION { [ 1..n -> RecordPool ] : n \in 0..MaxRecords }

\* the files that may lie under <room>/assets
AssetBundles(rn) ==
    LET dir == AssetsDir(OuterRoomPath(rn))
    IN  { { PathJoin(dir, << "chair", ".glb" >>), PathJoin(dir, << "chair", ".png" >>) },
          { PathJoin(dir, << "table", ".glb" >>) },
          { PathJoin(PathJoin(dir, << "old" >>), << "table", ".glb" >>),
            PathJoin(PathJoin(dir, << "old" >>), << "chair", ".glb" >>) } }

AssetSets(rn) == { UNION S : S \in SUBSET AssetBundles(rn) }

\* the host's scene at start-up: empty, or the default cube, light and camera
DefaultScene ==
    << HostObject(1, << "Cube" >>, "MESH", 0, << 0, 0, 0 >>, << 0, 0, 0 >>, << 200, 200, 200 >>),
       HostObject(2, << "Light" >>, "LIGHT", 0, << 400, 100, 600 >>, << 400, 100, 600 >>, << 0, 0, 0 >>),
       HostObject(3, << "Camera" >>, "CAMERA", 0, << 700, -700, 500 >>, << 700, -700, 500 >>, << 0, 0, 0 >>) >>

InitialScenes == { << >>, DefaultScene }

----------------------------------------------------------------------------
(* Initial state *)

Init ==
    /\ room_name \in RoomNames
    /\ step_number \in StepNumbers
    /\ ground_truth \in GroundTruths
    /\ fast_mode \in BOOLEAN
    /\ skip_save \in BOOLEAN
    /\ \/ /\ files = {}
          /\ sceneGraph = << >>
       \/ /\ files = { OuterRoomPath(room_name) }
          /\ sceneGraph = << >>
       \/ /\ \E a \in AssetSets(room_name) :
                files = { OuterRoomPath(room_name), BacktrackedJsonPath(room_name) } \cup a
          /\ sceneGraph \in SceneGraphs
    /\ opc = "start"
    /\ blender_cmd = << >>
    /\ out = << >>
    /\ render_output = << >>
    /\ exitStatus = -1
    /\ ipc = "idle"
    /\ returncode = -1
    /\ args = NoArgs
    /\ jsonReads = 0
    /\ objects_in_room = << >>
    /\ glb_file_paths = << >>
    /\ warnings = << >>
    /\ imports = << >>
    /\ objects \in InitialScenes
    /\ active = IF objects = << >> THEN 0 ELSE 1
    /\ nextId = Len(objects) + 1
    /\ MSH_OBJS = << >>
    /\ transform_map = << >>
    /\ ops = << >>
    /\ render_filepath = << >>
    /\ resolution = 0
    /\ written = {}

inputVars == << room_name, step_number, ground_truth, fast_mode, skip_save >>

outerVars == << opc, blender_cmd, out, render_output, exitStatus >>

hostVars == << objects, active, nextId >>

innerVars == << ipc, returncode, args, jsonReads, objects_in_room, glb_file_paths,
                warnings, imports, MSH_OBJS, transform_map, ops, render_filepath,
                resolution, written >>

----------------------------------------------------------------------------
(* run_local_metaverse *)

\* lines 45-47
OuterRoomMissing ==
    /\ opc = "start"
    /\ RoomMissing(files, room_name)
    /\ out' = Append(out, "error_room_folder")
    /\ opc' = "returned"
    /\ exitStatus' = OuterExitStatus(returncode)
    /\ UNCHANGED << inputVars, files, sceneGraph, blender_cmd, render_output,
                    innerVars, hostVars >>

\* lines 51-53
OuterJsonMissing ==
    /\ opc = "start"
    /\ ~RoomMissing(files, room_name)
    /\ JsonMissing(files, room_name)
    /\ out' = Append(out, "error_backtracked_json")
    /\ opc' = "returned"
    /\ exitStatus' = OuterExitStatus(returncode)
    /\ UNCHANGED << inputVars, files, sceneGraph, blender_cmd, render_output,
                    innerVars, hostVars >>

\* lines 55-75: the command line is built and the subprocess started
OuterLaunch ==
    /\ opc = "start"
    /\ ~RoomMissing(files, room_name)
    /\ ~JsonMissing(files, room_name)
    /\ blender_cmd' = BuildCmd(room_name, step_number, ground_truth, fast_mode, skip_save)
    /\ out' = out \o << "processing_room", "using_scene_graph", "running" >>
    /\ opc' = "waiting"
    /\ ipc' = "parse_args"
    /\ UNCHANGED << inputVars, files, sceneGraph, render_output, exitStatus, returncode,
                    args, jsonReads, objects_in_room, glb_file_paths, warnings, imports,
                    MSH_OBJS, transform_map, ops, render_filepath, resolution, written,
                    hostVars >>

\* lines 55-75 and 96-97: subprocess.run raises and the except clause logs it
OuterLaunchRaises ==
    /\ opc = "start"
    /\ ~RoomMissing(files, room_name)
    /\ ~JsonMissing(files, room_name)
    /\ blender_cmd' = BuildCmd(room_name, step_number, ground_truth, fast_mode, skip_save)
    /\ out' = out \o << "processing_room", "using_scene_graph", "running",
                        "error_in_run_local_metaverse" >>
    /\ opc' = "returned"
    /\ exitStatus' = OuterExitStatus(returncode)
    /\ UNCHANGED << inputVars, files, sceneGraph, render_output, innerVars, hostVars >>

\* lines 77-94: the subprocess has ended
OuterFinish ==
    /\ opc = "waiting"
    /\ ipc = "exited"
    /\ IF returncode # 0
       THEN /\ out' = out \o << "blender_output", "error_running_place_in_blender" >>
            /\ UNCHANGED render_output
       ELSE /\ render_output' = ExpectedRenderOutput(room_name, step_number)
            /\ out' = out \o << "blender_output", "completed_successfully",
                                IF render_output' \in files THEN "render_output_generated"
                                ELSE "warning_render_output_not_found",
                                "total_time" >>
    /\ opc' = "returned"
    /\ exitStatus' = OuterExitStatus(returncode)
    /\ UNCHANGED << inputVars, files, sceneGraph, blender_cmd, innerVars, hostVars >>

----------------------------------------------------------------------------
(* place_in_blender.py, run as the subprocess *)

room_path == InnerRoomPath(blender_cmd, args)

Repeat(x, n) == [ i \in 1..n |-> x ]

\* os.path.join(room_path, name) is written
WriteFile(path) ==
    /\ files' = files \cup { path }
    /\ written' = written \cup { path }
    /\ sceneGraph' = IF path = PathJoin(room_path, SceneGraphName) THEN << >> ELSE sceneGraph

Abort(rc) ==
    /\ ipc' = "exited"
    /\ returncode' = rc

\* lines 11-23: the arguments parse
InnerParseArgs ==
    /\ ipc = "parse_args"
    /\ ParseArgs(InnerArgv(blender_cmd)).ok
    /\ args' = ParseArgs(InnerArgv(blender_cmd))
    /\ ipc' = "remove_cube"
    /\ UNCHANGED << inputVars, files, sceneGraph, outerVars, hostVars, returncode,
                    jsonReads, objects_in_room, glb_file_paths, warnings, imports,
                    MSH_OBJS, transform_map, ops, render_filepath, resolution, written >>

\* line 17: parse_args() prints usage and exits with status 2
InnerArgsError ==
    /\ ipc = "parse_args"
    /\ ~ParseArgs(InnerArgv(blender_cmd)).ok
    /\ Abort(2)
    /\ UNCHANGED << inputVars, files, sceneGraph, outerVars, hostVars, args,
                    jsonReads, objects_in_room, glb_file_paths, warnings, imports,
                    MSH_OBJS, transform_map, ops, render_filepath, resolution, written >>

\* lines 309-312
InnerRemoveDefaultCube ==
    /\ ipc = "remove_cube"
    /\ IF HasName(objects, << "Cube" >>)
       THEN /\ objects' = RemoveObject(objects, ObjByName(objects, << "Cube" >>).id)
            /\ active' = IF active = ObjByName(objects, << "Cube" >>).id THEN 0 ELSE active
       ELSE UNCHANGED << objects, active >>
    /\ ipc' = "load"
    /\ UNCHANGED << inputVars, files, sceneGraph, outerVars, nextId, returncode, args,
                    jsonReads, objects_in_room, glb_file_paths, warnings, imports,
                    MSH_OBJS, transform_map, ops, render_filepath, resolution, written >>

\* lines 318-325: the scene graph file is opened and read
InnerLoadSceneData ==
    /\ ipc = "load"
    /\ jsonReads' = jsonReads + 1
    /\ IF PathJoin(room_path, SceneGraphName) \in files
       THEN /\ objects_in_room' = LoadSceneData(sceneGraph)
            /\ ipc' = "find_glb"
            /\ UNCHANGED returncode
       ELSE /\ Abort(1)
            /\ UNCHANGED objects_in_room
    /\ UNCHANGED << inputVars, files, sceneGraph, outerVars, hostVars, args,
                    glb_file_paths, warnings, imports, MSH_OBJS, transform_map, ops,
                    render_filepath, resolution, written >>

\* lines 331-332
InnerFindGlbFiles ==
    /\ ipc = "find_glb"
    /\ glb_file_paths' = FindGlbFiles(files, AssetsDir(room_path))
    /\ ipc' = "import"
    /\ UNCHANGED << inputVars, files, sceneGraph, outerVars, hostVars, returncode, args,
                    jsonReads, objects_in_room, warnings, imports, MSH_OBJS,
                    transform_map, ops, render_filepath, resolution, written >>

\* line 338: batch_import_assets
InnerImportAssets ==
    /\ ipc = "import"
    /\ LET list == ImportList(objects_in_room, glb_file_paths)
           st   == ImportAll([ objs |-> objects, act |-> active, nid |-> nextId ], list, 1)
       IN  /\ warnings' = MissingGlb(objects_in_room, glb_file_paths)
           /\ imports' = list
           /\ objects' = st.objs
           /\ active' = st.act
           /\ nextId' = st.nid
           /\ ops' = ops \o Repeat("import", Len(list))
    /\ ipc' = "join"
    /\ UNCHANGED << inputVars, files, sceneGraph, outerVars, returncode, args, jsonReads,
                    objects_in_room, glb_file_paths, MSH_OBJS, transform_map,
                    render_filepath, resolution, written >>

\* lines 152-163: the first batch of batch_process_meshes
InnerJoinMeshes ==
    /\ ipc = "join"
    /\ LET parents == EmptyParents(objects)
           st      == JoinAll([ objs |-> objects, act |-> active ], parents, 1)
       IN  /\ objects' = st.objs
           /\ active' = st.act
           /\ ops' = ops \o Repeat("join", Len(parents))
    /\ ipc' = "clear"
    /\ UNCHANGED << inputVars, files, sceneGraph, outerVars, nextId, returncode, args,
                    jsonReads, objects_in_room, glb_file_paths, warnings, imports,
                    MSH_OBJS, transform_map, render_filepath, resolution, written >>

\* lines 166-177: the second batch
InnerClearParents ==
    /\ ipc = "clear"
    /\ MSH_OBJS' = MeshIds(objects)
    /\ IF Len(MSH_OBJS') > 0
       THEN /\ objects' = ClearAndApply(objects)
            /\ active' = MSH_OBJS'[1]
            /\ ops' = ops \o << "parent_clear", "transform_apply", "origin_set" >>
       ELSE UNCHANGED << objects, active, ops >>
    /\ ipc' = "transform"
    /\ UNCHANGED << inputVars, files, sceneGraph, outerVars, nextId, returncode, args,
                    jsonReads, objects_in_room, glb_file_paths, warnings, imports,
                    transform_map, render_filepath, resolution, written >>

\* lines 180-224: the third batch; every mapped mesh has a volume
InnerTransform ==
    /\ ipc = "transform"
    /\ LET tm   == BuildTransformMap(objects, MSH_OBJS, objects_in_room)
           todo == Mapped(objects, MSH_OBJS, tm)
       IN  /\ ScaledCount(objects, todo) = Len(todo)
           /\ transform_map' = tm
           /\ objects' = ApplyScales(PlaceAndRotate(objects, MSH_OBJS, tm), todo, Len(todo), tm)
           /\ active' = IF todo = << >> THEN active ELSE todo[Len(todo)]
           /\ ops' = ops \o Repeat("position", Len(todo)) \o Repeat("rotation", Len(todo))
                         \o Repeat("scale", Len(todo))
    /\ ipc' = "delete_empties"
    /\ UNCHANGED << inputVars, files, sceneGraph, outerVars, nextId, returncode, args,
                    jsonReads, objects_in_room, glb_file_paths, warnings, imports,
                    MSH_OBJS, render_filepath, resolution, written >>

\* lines 180-224: a mapped mesh with a zero dimension raises ZeroDivisionError
\* in the scale loop, after every position and rotation has been applied
InnerTransformRaises ==
    /\ ipc = "transform"
    /\ LET tm   == BuildTransformMap(objects, MSH_OBJS, objects_in_room)
           todo == Mapped(objects, MSH_OBJS, tm)
           n    == ScaledCount(objects, todo)
       IN  /\ n < Len(todo)
           /\ transform_map' = tm
           /\ objects' = ApplyScales(PlaceAndRotate(objects, MSH_OBJS, tm), todo, n, tm)
           /\ active' = todo[Len(todo)]
           /\ ops' = ops \o Repeat("position", Len(todo)) \o Repeat("rotation", Len(todo))
                         \o Repeat("scale", n)
    /\ Abort(1)
    /\ UNCHANGED << inputVars, files, sceneGraph, outerVars, nextId, args,
                    jsonReads, objects_in_room, glb_file_paths, warnings, imports,
                    MSH_OBJS, render_filepath, resolution, written >>

\* lines 350-351: delete_empty_objects
InnerDeleteEmpties ==
    /\ ipc = "delete_empties"
    /\ \E left \in DeleteEmptyObjects(objects) :
          /\ objects' = left
          /\ active' = IF Len(left) < Len(objects) THEN 0 ELSE active
          /\ ops' = ops \o Repeat("delete_empty", Len(objects) - Len(left))
    /\ ipc' = "create_room"
    /\ UNCHANGED << inputVars, files, sceneGraph, outerVars, nextId, returncode, args,
                    jsonReads, objects_in_room, glb_file_paths, warnings, imports,
                    MSH_OBJS, transform_map, render_filepath, resolution, written >>

\* lines 94-99: the iteration reads an object the loop has removed and the host
\* process dies of it
InnerDeleteEmptiesCrash ==
    /\ ipc = "delete_empties"
    /\ \E i \in 1..Len(objects) : objects[i].type = "EMPTY"
    /\ Abort(139)
    /\ UNCHANGED << inputVars, files, sceneGraph, outerVars, hostVars, args,
                    jsonReads, objects_in_room, glb_file_paths, warnings, imports,
                    MSH_OBJS, transform_map, ops, render_filepath, resolution, written >>

\* line 357: create_room(6.0, 4.0, 3)
InnerCreateRoom ==
    /\ ipc = "create_room"
    /\ objects' = CreateRoom(objects, nextId, 600, 400, 300)
    /\ active' = nextId
    /\ nextId' = nextId + 1
    /\ ops' = Append(ops, "create_room")
    /\ ipc' = "save"
    /\ UNCHANGED << inputVars, files, sceneGraph, outerVars, returncode, args,
                    jsonReads, objects_in_room, glb_file_paths, warnings, imports,
                    MSH_OBJS, transform_map, render_filepath, resolution, written >>

\* lines 362-370
InnerSaveFile ==
    /\ ipc = "save"
    /\ IF SavesBlend(args)
       THEN /\ WriteFile(PathJoin(room_path, BlendName(args.ground_truth, args.step_number)))
            /\ ops' = Append(ops, "save")
       ELSE UNCHANGED << files, written, sceneGraph, ops >>
    /\ ipc' = "render"
    /\ UNCHANGED << inputVars, outerVars, hostVars, returncode, args,
                    jsonReads, objects_in_room, glb_file_paths, warnings, imports,
                    MSH_OBJS, transform_map, render_filepath, resolution >>

\* lines 374-376: setup_render() and the render, which writes the image
InnerRender ==
    /\ ipc = "render"
    /\ objects' = WithCamera(objects, nextId)
    /\ active' = IF HasName(objects, << "Camera" >>) THEN active ELSE nextId
    /\ nextId' = IF HasName(objects, << "Camera" >>) THEN nextId ELSE nextId + 1
    /\ resolution' = Resolution(args)
    /\ render_filepath' = PathJoin(room_path, RenderName(args.ground_truth, args.step_number))
    /\ WriteFile(render_filepath')
    /\ ops' = ops \o << "setup_render", "render" >>
    /\ Abort(0)
    /\ UNCHANGED << inputVars, outerVars, args, jsonReads, objects_in_room,
                    glb_file_paths, warnings, imports, MSH_OBJS, transform_map >>

----------------------------------------------------------------------------

Next ==
    \/ OuterRoomMissing
    \/ OuterJsonMissing
    \/ OuterLaunch
    \/ OuterLaunchRaises
    \/ OuterFinish
    \/ InnerParseArgs
    \/ InnerArgsError
    \/ InnerRemoveDefaultCube
    \/ InnerLoadSceneData
    \/ InnerFindGlbFiles
    \/ InnerImportAssets
    \/ InnerJoinMeshes
    \/ InnerClearParents
    \/ InnerTransform
    \/ InnerTransformRaises
    \/ InnerDeleteEmpties
    \/ InnerDeleteEmptiesCrash
    \/ InnerCreateRoom
    \/ InnerSaveFile
    \/ InnerRender

Spec == Init /\ [][Next]_vars

----------------------------------------------------------------------------
(* Properties *)

Count(seq, x) == Cardinality({ i \in 1..Len(seq) : seq[i] = x })

Last(seq) == seq[Len(seq)]

\* the inner script ran to its end
Completed == ipc = "exited" /\ returncode = 0

\* C1: when the room folder, or the scene graph file in it, does not exist,
\* run_local_metaverse prints the matching error and returns: no command line
\* is built, no subprocess is started and no render output is looked for.
C1_MissingInputsReturnEarly ==
    (opc # "start"
       /\ (OuterRoomPath(room_name) \notin files
           \/ BacktrackedJsonPath(room_name) \notin files))
    => /\ opc = "returned"
       /\ out = IF OuterRoomPath(room_name) \notin files
                THEN << "error_room_folder" >> ELSE << "error_backtracked_json" >>
       /\ blender_cmd = << >>
       /\ ipc = "idle"
       /\ returncode = -1
       /\ render_output = << >>

\* C1 witness: the folder exists, the scene graph file does not, and the
\* function has returned.
C1_Witness ==
    /\ opc = "returned"
    /\ OuterRoomPath(room_name) \in files
    /\ BacktrackedJsonPath(room_name) \notin files
    /\ out = << "error_backtracked_json" >>

\* C2: whatever the outcome, run_local_metaverse returns and the outer process
\* ends with exit status 0; a non-zero return code of the subprocess is logged
\* only, and the success message and the render-output check are skipped.
C2_NeverPropagates ==
    /\ opc # "returned" => exitStatus = -1
    /\ opc = "returned" =>
         /\ exitStatus = 0
         /\ returncode > 0 =>
              /\ Last(out) = "error_running_place_in_blender"
              /\ Count(out, "completed_successfully") = 0
              /\ Count(out, "render_output_generated") = 0
              /\ Count(out, "warning_render_output_not_found") = 0
              /\ render_output = << >>
         /\ returncode = 0 => Count(out, "completed_successfully") = 1
         /\ returncode = -1 => ipc = "idle"

\* C2 witness: the subprocess ended with a non-zero return code and the outer
\* function has returned.
C2_Witness ==
    /\ opc = "returned"
    /\ returncode = 1
    /\ exitStatus = 0

\* the scene graph file has been read
AfterLoad == jsonReads = 1 /\ BacktrackedJsonPath(room_name) \in files

NonStructural(i) == sceneGraph[i].new_object_id \notin StructuralLabels

\* C3 as stated: objects_in_room holds exactly the non-structural records of
\* the JSON sequence, each under its new_object_id, and every one of them.
C3_EveryNonStructuralRecordKept ==
    AfterLoad =>
      /\ \A j \in 1..Len(objects_in_room) :
           /\ objects_in_room[j].key = objects_in_room[j].value.new_object_id
           /\ \E i \in 1..Len(sceneGraph) :
                 NonStructural(i) /\ sceneGraph[i] = objects_in_room[j].value
      /\ \A i \in 1..Len(sceneGraph) :
           NonStructural(i) =>
             \E j \in 1..Len(objects_in_room) : objects_in_room[j].value = sceneGraph[i]

\* C3 (amended): objects_in_room has one entry for each non-structural
\* new_object_id of the JSON sequence and no other, and the entry holds the last
\* record of the sequence with that identifier; no structural record is
\* imported or turned into a transform.
C3_LastNonStructuralRecordKept ==
    AfterLoad =>
      /\ DictKeySet(objects_in_room)
           = { sceneGraph[i].new_object_id : i \in { n \in 1..Len(sceneGraph) : NonStructural(n) } }
      /\ \A j, k \in 1..Len(objects_in_room) :
           objects_in_room[j].key = objects_in_room[k].key => j = k
      /\ \A j \in 1..Len(objects_in_room) :
           \E i \in 1..Len(sceneGraph) :
              /\ sceneGraph[i] = objects_in_room[j].value
              /\ sceneGraph[i].new_object_id = objects_in_room[j].key
              /\ \A l \in (i + 1)..Len(sceneGraph) :
                    sceneGraph[l].new_object_id # objects_in_room[j].key
      /\ \A m \in 1..Len(imports) : imports[m][2] \notin StructuralLabels
      /\ \A n \in DOMAIN transform_map :
           \E i \in 1..Len(sceneGraph) :
              /\ NonStructural(i)
              /\ transform_map[n].position
                   = << sceneGraph[i].position.x, sceneGraph[i].position.y,
                        sceneGraph[i].position.z >>
              /\ transform_map[n].size = sceneGraph[i].size_in_meters

\* C3 witness: a scene graph with a structural and a non-structural record has
\* been loaded, and only the non-structural one is kept.
C3_Witness ==
    /\ AfterLoad
    /\ \E i, j \in 1..Len(sceneGraph) : NonStructural(i) /\ ~NonStructural(j)
    /\ Len(objects_in_room) = 1

\* batch_import_assets has returned and the run has not been cut short
ImportDone ==
    \/ ipc \in { "join", "clear", "transform", "delete_empties", "create_room",
                 "save", "render" }
    \/ Completed

\* C4: every scene-graph object whose identifier is a key of the .glb files is
\* imported exactly once, from the file of that key, and the object the import
\* leaves active is given the identifier as its name; every other object is
\* warned about once, is not imported and gets no transform.
C4_ImportOrWarnAndSkip ==
    ImportDone =>
      /\ Len(imports) + Len(warnings) = Len(objects_in_room)
      /\ Count(ops, "import") = Len(imports)
      /\ \A k \in DictKeySet(objects_in_room) :
           IF k \in DOMAIN glb_file_paths
           THEN /\ Cardinality({ m \in 1..Len(imports) : imports[m][2] = k }) = 1
                /\ \A m \in 1..Len(imports) :
                      imports[m][2] = k => imports[m][1] = glb_file_paths[k]
                /\ Count(warnings, k) = 0
                /\ ipc = "join" => HasName(objects, k)
           ELSE /\ Count(warnings, k) = 1
                /\ \A m \in 1..Len(imports) : imports[m][2] # k
                /\ \A n \in DOMAIN transform_map : MatchKey(n, objects_in_room) # << k >>

\* C4 witness: one object was imported, another had no .glb file and was
\* skipped, and the run went on to the render and ended with return code 0.
C4_Witness ==
    /\ Completed
    /\ Len(imports) = 1
    /\ Len(warnings) = 1
    /\ Count(ops, "render") = 1

\* the third batch of batch_process_meshes has run to its end
TransformDone ==
    \/ ipc \in { "delete_empties", "create_room", "save", "render" }
    \/ Completed

SuffixAtoms == { "-joined", ".001", ".002" }

\* name is the identifier k followed by one or more of the suffixes
CarriesSuffixes(name, k) ==
    /\ Len(name) > Len(k)
    /\ IsPrefix(k, name)
    /\ \A i \in (Len(k) + 1)..Len(name) : name[i] \in SuffixAtoms

\* the transform a scene-graph record stands for: position, z_angle + 180
\* degrees, size
ExpectedTransform(item) ==
    [ position |-> << item.position.x, item.position.y, item.position.z >>,
      rotation |-> item.rotation.z_angle + 180,
      size     |-> item.size_in_meters ]

\* C5 as stated: the four variants of a mesh name are tried in order and the
\* first that is a scene-graph identifier gives the mesh its position, rotation
\* and size; a mesh named by an identifier with "-joined" and/or ".001"/".002"
\* appended always gets that identifier's transform; a mesh no variant matches
\* keeps its location, rotation and scale.
C5_SuffixedNamesGetTransform ==
    TransformDone =>
      \A m \in 1..Len(MSH_OBJS) :
         LET o == ObjById(objects, MSH_OBJS[m])
         IN  /\ \A k \in DictKeySet(objects_in_room) :
                   (o.name = k \/ CarriesSuffixes(o.name, k)) =>
                      /\ o.name \in DOMAIN transform_map
                      /\ transform_map[o.name] = ExpectedTransform(DictGet(objects_in_room, k))
                      /\ o.location = ExpectedTransform(DictGet(objects_in_room, k)).position
             /\ (\A v \in 1..4 : ~DictHas(objects_in_room, KeyVariants(o.name)[v])) =>
                   /\ o.name \notin DOMAIN transform_map
                   /\ o.location = o.center
                   /\ o.rotation_z = 0
                   /\ o.scale = UnitScale

\* What holds of the name matching: the first of the four variants that is a
\* scene-graph identifier selects the transform applied, and a mesh no variant
\* matches is left as the second batch left it.
C5_FirstVariantSelects ==
    TransformDone =>
      \A m \in 1..Len(MSH_OBJS) :
         LET o  == ObjById(objects, MSH_OBJS[m])
             kv == KeyVariants(o.name)
         IN  /\ \A v \in 1..4 :
                   (DictHas(objects_in_room, kv[v])
                      /\ \A u \in 1..(v - 1) : ~DictHas(objects_in_room, kv[u])) =>
                      /\ o.name \in DOMAIN transform_map
                      /\ transform_map[o.name] = ExpectedTransform(DictGet(objects_in_room, kv[v]))
                      /\ o.location = transform_map[o.name].position
                      /\ o.rotation_z = transform_map[o.name].rotation
             /\ (\A v \in 1..4 : ~DictHas(objects_in_room, kv[v])) =>
                   /\ o.name \notin DOMAIN transform_map
                   /\ o.location = o.center
                   /\ o.rotation_z = 0
                   /\ o.scale = UnitScale

\* the place of an editing operation in the order of the script
Rank(op) ==
    CASE op = "import"          -> 1
      [] op = "join"            -> 2
      [] op = "parent_clear"    -> 3
      [] op = "transform_apply" -> 4
      [] op = "origin_set"      -> 5
      [] op = "position"        -> 6
      [] op = "rotation"        -> 7
      [] op = "scale"           -> 8
      [] op = "delete_empty"    -> 9
      [] op = "create_room"     -> 10
      [] op = "save"            -> 11
      [] op = "setup_render"    -> 12
      [] op = "render"          -> 13

\* C6: the editing operations are issued in one order: imports, joins, parent
\* clearing and transform application, positions, rotations, scales, removal
\* of empties, the room, the save (exactly when skip_save is false), the
\* render set-up, the render.  In a run that completes the room, the set-up
\* and the render happen exactly once each, the render last.
C6_FixedOrder ==
    /\ \A i, j \in 1..Len(ops) : i < j => Rank(ops[i]) <= Rank(ops[j])
    /\ \A op \in { "parent_clear", "transform_apply", "origin_set", "create_room",
                   "save", "setup_render", "render" } : Count(ops, op) <= 1
    /\ Completed =>
         /\ Last(ops) = "render"
         /\ Count(ops, "render") = 1
         /\ Count(ops, "setup_render") = 1
         /\ Count(ops, "create_room") = 1
         /\ Count(ops, "save") = IF skip_save THEN 0 ELSE 1
         /\ Count(ops, "import") = Len(imports)
         /\ Count(ops, "parent_clear") = IF MSH_OBJS = << >> THEN 0 ELSE 1
         /\ Count(ops, "position") = Cardinality(DOMAIN transform_map)
         /\ Count(ops, "rotation") = Cardinality(DOMAIN transform_map)
         /\ Count(ops, "scale") = Cardinality(DOMAIN transform_map)

\* C6 witness: a completed run in which every kind of operation happened, the
\* save included.
C6_Witness ==
    /\ Completed
    /\ \A op \in { "import", "join", "parent_clear", "position", "rotation", "scale",
                   "delete_empty", "create_room", "save", "render" } : Count(ops, op) >= 1

\* C6 witness of the other flag value: a completed run with skip_save set.
C6_WitnessSkipSave ==
    /\ Completed
    /\ skip_save
    /\ Count(ops, "scale") >= 1

\* C7: a completed inner run has written, under the room directory, the render
\* image (render_output_groundtruth1.png for ground truth, else
\* render_output_step_<n>.png) and, exactly when skip_save is false, the scene
\* file (generated_scene_groundtruth.blend, else generated_scene_step_<n>.blend),
\* and nothing else.
C7_FilesWritten ==
    Completed =>
      written =
        { PathJoin(OuterRoomPath(room_name),
                   IF ground_truth = "true" THEN << "render_output_groundtruth1", ".png" >>
                   ELSE << "render_output_step_" >> \o FormatInt(step_number) \o << ".png" >>) }
        \cup
        (IF skip_save THEN {}
         ELSE { PathJoin(OuterRoomPath(room_name),
                         IF ground_truth = "true"
                         THEN << "generated_scene_groundtruth", ".blend" >>
                         ELSE << "generated_scene_step_" >> \o FormatInt(step_number)
                                 \o << ".blend" >>) })

\* C7 witness: a completed ground-truth run with skip_save set wrote one file.
C7_Witness ==
    /\ Completed
    /\ skip_save
    /\ ground_truth = "true"
    /\ Cardinality(written) = 1

\* C8 as stated: for every room_name, step_number, ground_truth, fast_mode and
\* skip_save the command line carries --room_name, --step_number and
\* --ground_truth with the given values, --fast_mode and --skip_save exactly
\* when set, and the inner script parses the values the outer script was given.
C8_InnerFlagsMirrorOuter ==
    ipc \notin { "idle", "parse_args" } =>
      /\ Count(ShellWords(blender_cmd), << "--fast_mode" >>) = IF fast_mode THEN 1 ELSE 0
      /\ Count(ShellWords(blender_cmd), << "--skip_save" >>) = IF skip_save THEN 1 ELSE 0
      /\ args = [ ok |-> TRUE, room_name |-> room_name, step_number |-> step_number,
                  ground_truth |-> (ground_truth = "true"), fast_mode |-> fast_mode,
                  skip_save |-> skip_save ]

\* What holds of the flags: a room name without a blank is mirrored.
C8_MirrorWithoutBlank ==
    (ipc \notin { "idle", "parse_args" } /\ Count(room_name, " ") = 0) =>
      args = [ ok |-> TRUE, room_name |-> room_name, step_number |-> step_number,
               ground_truth |-> (ground_truth = "true"), fast_mode |-> fast_mode,
               skip_save |-> skip_save ]

\* C9: no step changes the content of scene_graph-backtracked.json or creates
\* or removes the file, and the file is opened for reading at most once.
C9_SceneGraphReadOnly ==
    [][ /\ sceneGraph' = sceneGraph
        /\ (BacktrackedJsonPath(room_name) \in files')
             = (BacktrackedJsonPath(room_name) \in files)
        /\ jsonReads' <= 1
        /\ jsonReads' >= jsonReads ]_vars

\* C9 witness: a completed run read a scene graph with records in it once and
\* wrote its two files.
C9_Witness ==
    /\ Completed
    /\ opc = "returned"
    /\ jsonReads = 1
    /\ sceneGraph # << >>
    /\ Cardinality(written) = 2

\* C10 as stated: when the subprocess returns 0, the path run_local_metaverse
\* looks for is the render filepath set by setup_render, so the run reports
\* "Render output generated" and not the warning.
C10_CheckedPathIsRenderedPath ==
    (opc = "returned" /\ returncode = 0) =>
      /\ render_output = render_filepath
      /\ Count(out, "render_output_generated") = 1
      /\ Count(out, "warning_render_output_not_found") = 0

\* What holds of the render output: without ground truth the path looked for
\* is the path rendered.
C10_StepRenderFound ==
    (opc = "returned" /\ returncode = 0 /\ ground_truth = "false") =>
      /\ render_output = render_filepath
      /\ Count(out, "render_output_generated") = 1

\* delete_empty_objects has returned
EmptiesDeleted ==
    \/ ipc \in { "create_room", "save", "render" }
    \/ Completed

C11_OnlyEmptiesRemoved ==
    EmptiesDeleted =>
      /\ \A m \in 1..Len(MSH_OBJS) : MSH_OBJS[m] \in ObjIds(objects)
      /\ Count(ops, "delete_empty")
           + Cardinality({ i \in 1..Len(objects) : objects[i].type = "EMPTY" })
         = Cardinality({ e \in (1..Len(imports)) \X (1..6) :
                           /\ e[2] <= Len(GltfContent(imports[e[1]][1]))
                           /\ GltfContent(imports[e[1]][1])[e[2]].type = "EMPTY" })

====
